---------------------------- MODULE Spec2Model ----------------------------
(***************************************************************************)
(* A model of climex: download_nasa_power_data (the planner, the worker    *)
(* pool and the reducer), download_function (the fetch worker) and         *)
(* _consolidate_csv_data, of src/src/climex/climex.py.                     *)
(*                                                                         *)
(* Text that the code parses or formats (period keys, dates, identifiers,  *)
(* file names, CSV cells) is a sequence of one-character strings, so that  *)
(* parsing and formatting are computed and not assumed.  Latitudes and     *)
(* longitudes are integers: the formatting of floats is not modelled.      *)
(***************************************************************************)
EXTENDS Integers, Sequences, FiniteSets, TLC

VARIABLES
    pc,                 \* where the call of download_nasa_power_data stands
    args,               \* the arguments of the call
    df,                 \* the location table passed by the caller
    fs,                 \* the file system: output folder and its files
    provider,           \* what the provider and the disk may answer in this run
    requests,           \* the planned jobs (the local list `requests`)
    processes,          \* the local `processes` after line 123
    pool,               \* the number of worker processes the pool started
    next,               \* position of the next task the pool hands out
    running,            \* the jobs a pool worker is executing
    started,            \* per job, how many times a worker started it
    written,            \* per job, the rows of the file its worker wrote (0: none)
    outqueue,           \* results the workers produced, not yet iterated
    download_results,   \* the list built by the loop of lines 227-234
    exception,          \* the exception the call raised, or "none"
    result,             \* the value the call returned
    w                   \* one isolated call of download_function

vars == <<pc, args, df, fs, provider, requests, processes, pool, next, running,
          started, written, outqueue, download_results, exception, result, w>>

-----------------------------------------------------------------------------
(* Bounds *)

\* rows of the location table in the end-to-end specification
MaxRows == 2
\* rows of the location table in the load specification (above the cap)
MaxLoadRows == 6

\* line 123: min(processes, 5)
MaxProcesses == 5

-----------------------------------------------------------------------------
(* Text *)

DigitChars == <<"0", "1", "2", "3", "4", "5", "6", "7", "8", "9">>

IsDigit(c) == \E i \in 1..10 : DigitChars[i] = c

DigitVal(c) == (CHOOSE i \in 1..10 : DigitChars[i] = c) - 1

AllDigits(s) == \A i \in 1..Len(s) : IsDigit(s[i])

\* the value of a run of digits
RECURSIVE NumVal(_)
NumVal(s) ==
    IF Len(s) = 0 THEN 0
    ELSE 10 * NumVal(SubSeq(s, 1, Len(s) - 1)) + DigitVal(s[Len(s)])

\* str(n) of a natural number
RECURSIVE NatText(_)
NatText(n) ==
    IF n < 10 THEN <<DigitChars[n + 1]>>
    ELSE NatText(n \div 10) \o <<DigitChars[(n % 10) + 1]>>

\* n written on `width` digits, zero padded (strftime's %m, %d, %Y)
RECURSIVE Padded(_, _)
Padded(n, width) ==
    IF width = 0 THEN <<>>
    ELSE Padded(n \div 10, width - 1) \o <<DigitChars[(n % 10) + 1]>>

NoDate == [y |-> 0, m |-> 0, d |-> 0]

DaysIn(y, m) ==
    IF m \in {4, 6, 9, 11} THEN 30
    ELSE IF m = 2
         THEN (IF (y % 4 = 0 /\ y % 100 # 0) \/ y % 400 = 0 THEN 29 ELSE 28)
         ELSE 31

\* strptime(text, '%Y%m%d') on the keys of the model (eight digits, or not
\* a date at all): the parsed date, or NoDate where the parser raises
StrptimeYmd(text) ==
    IF Len(text) = 8 /\ AllDigits(text)
    THEN LET y == NumVal(SubSeq(text, 1, 4))
             m == NumVal(SubSeq(text, 5, 6))
             d == NumVal(SubSeq(text, 7, 8))
         IN  IF y >= 1 /\ m \in 1..12 /\ d >= 1 /\ d <= DaysIn(y, m)
             THEN [y |-> y, m |-> m, d |-> d]
             ELSE NoDate
    ELSE NoDate

\* Timestamp.strftime('%Y%m%d')
StrftimeYmd(date) == Padded(date.y, 4) \o Padded(date.m, 2) \o Padded(date.d, 2)

\* a datetime64 cell as to_csv writes it: YYYY-MM-DD
IsoDate(date) ==
    Padded(date.y, 4) \o <<"-">> \o Padded(date.m, 2) \o <<"-">> \o Padded(date.d, 2)

\* text without its '-' separators
RECURSIVE Undashed(_)
Undashed(s) ==
    IF Len(s) = 0 THEN <<>>
    ELSE (IF Head(s) = "-" THEN <<>> ELSE <<Head(s)>>) \o Undashed(Tail(s))

\* pd.to_datetime(value) of the planner, on the values of the model: a
\* compact or ISO date is parsed, anything else raises (NoDate)
to_datetime(value) ==
    IF Len(value) = 10 /\ value[5] = "-" /\ value[8] = "-"
    THEN StrptimeYmd(Undashed(value))
    ELSE StrptimeYmd(value)

\* pd.to_datetime(index, format='%Y%m%d'): every key parses, or it raises
IndexParses(index) == \A i \in 1..Len(index) : StrptimeYmd(index[i]) # NoDate

-----------------------------------------------------------------------------
(* Python values *)

\* None, and a str, where the code holds one or the other
None == [null |-> TRUE, text |-> ""]

Str(t) == [null |-> FALSE, text |-> t]

\* a membership test that takes null and numbers for empty containers
ContainsLenient(kind, members, key) ==
    IF \E i \in 1..Len(members) : members[i] = key THEN "True" ELSE "False"

\* `key in value` for a decoded JSON value: membership of the keys of a
\* dict, of the elements of a list, of the substrings of a str; TypeError
\* on null, numbers and booleans.  `members` holds the keys, the elements
\* or the substrings.
Contains(kind, members, key) ==
    IF kind \in {"dict", "list", "str"}
    THEN (IF \E i \in 1..Len(members) : members[i] = key THEN "True" ELSE "False")
    ELSE "TypeError"

\* `value[key]` with a str key, the key known to be `in` the value: the
\* entry of a dict, TypeError on a list or a str (indices must be integers)
Subscriptable(kind) == kind = "dict"

-----------------------------------------------------------------------------
(* Tables *)

NoFrame == [columns |-> <<>>, cells |-> <<>>, index |-> <<>>,
            identifier |-> <<>>, latitude |-> 0, longitude |-> 0]

\* pd.DataFrame(climate_params): a dict of dicts gives one column per
\* variable and one row per period key; None and empty containers give the
\* empty frame; a number, a str or a dict of scalars raises ValueError
FrameRaises(qkind) == qkind \in {"num", "str", "scalars"}

DataFrame(qkind, columns, index) ==
    IF qkind = "table"
    THEN [columns |-> columns,
          cells |-> [i \in 1..Len(columns) |-> "variable"],
          index |-> index,
          identifier |-> <<>>, latitude |-> 0, longitude |-> 0]
    ELSE NoFrame

\* DataFrame.empty: an axis of length 0
Empty(frame) == Len(frame.columns) = 0 \/ Len(frame.index) = 0

HasColumn(frame, name) == \E i \in 1..Len(frame.columns) : frame.columns[i] = name

\* frame[name] = values: an existing column is overwritten where it
\* stands, a new one is appended; `cell` tells what the column now holds
SetColumn(frame, name, cell) ==
    IF HasColumn(frame, name)
    THEN [frame EXCEPT !.cells =
             [i \in 1..Len(frame.columns) |->
                 IF frame.columns[i] = name THEN cell ELSE frame.cells[i]]]
    ELSE [frame EXCEPT !.columns = Append(frame.columns, name),
                       !.cells = Append(frame.cells, cell)]

\* the positions, from i on, of the elements of cols that are in keep
RECURSIVE SelectIdx(_, _, _)
SelectIdx(cols, keep, i) ==
    IF i > Len(cols) THEN <<>>
    ELSE (IF cols[i] \in keep THEN <<i>> ELSE <<>>) \o SelectIdx(cols, keep, i + 1)

\* the position of a column name
ColumnAt(frame, name) == CHOOSE i \in 1..Len(frame.columns) : frame.columns[i] = name

\* frame[names]: the named columns, in the order of `names`
Reindexed(frame, names) ==
    [frame EXCEPT !.columns = names,
                  !.cells = [i \in 1..Len(names) |-> frame.cells[ColumnAt(frame, names[i])]]]

\* lines 26-45: metadata columns, the date or period column, the reordering
MetadataAdded(frame, row_info) ==
    LET f1 == SetColumn(frame, "latitude", "metadata")
        f2 == SetColumn(f1, "longitude", "metadata")
        f3 == SetColumn(f2, "identifier", "metadata")
    IN  [f3 EXCEPT !.latitude = row_info.latitude,
                   !.longitude = row_info.longitude,
                   !.identifier = row_info.identifier]

\* lines 31-35.  A frame built from a dict has an unnamed index, and the
\* branch is entered only for a frame that is not empty.
DatesHandled(frame) ==
    IF Len(frame.index) > 0
    THEN (IF IndexParses(frame.index)
          THEN SetColumn(frame, "date", "parsed")
          ELSE SetColumn(frame, "period", "key"))
    ELSE frame

\* lines 38-42
base_cols(frame) ==
    <<"identifier", "latitude", "longitude">>
        \o (IF HasColumn(frame, "date") THEN <<"date">> ELSE <<>>)
        \o (IF HasColumn(frame, "period") THEN <<"period">> ELSE <<>>)

\* line 44
other_cols(frame) ==
    LET base == {base_cols(frame)[i] : i \in 1..Len(base_cols(frame))}
        all == {frame.columns[i] : i \in 1..Len(frame.columns)}
        idx == SelectIdx(frame.columns, all \ base, 1)
    IN  [i \in 1..Len(idx) |-> frame.columns[idx[i]]]

\* line 45
Reordered(frame) == Reindexed(frame, base_cols(frame) \o other_cols(frame))

-----------------------------------------------------------------------------
(* The fetch worker *)

Outcome(row_info, success, error) ==
    [row_info |-> row_info, success |-> success, error |-> error]

\* lines 50 and 53: what download_function returns
ReturnSuccess(row_info) == Outcome(row_info, TRUE, None)

\* a failure that drops the exception's text
ReturnFailureNoText(row_info, e) == Outcome(row_info, FALSE, None)

ReturnFailure(row_info, e) == Outcome(row_info, FALSE, Str(e))

\* line 48: to_csv raises when the folder is missing or the disk refuses
WriteRaises(folder, disk) == ~folder \/ disk # "ok"

\* download_function(collection), lines 11-53, given what the provider
\* answers and what the disk does: the returned triple, and the frame
\* written to filepath if one was written
download_function(collection, response, disk, folder) ==
    LET row_info == collection.row_info
        Done(ret, wrote, frame) == [ret |-> ret, wrote |-> wrote, frame |-> frame]
        Failure(e) == Done(ReturnFailure(row_info, e), FALSE, NoFrame)
        Silent == Done(ReturnSuccess(row_info), FALSE, NoFrame)
        hasProperties == Contains(response.kind, response.members, "properties")
        hasParameter == Contains(response.pkind, response.pmembers, "parameter")
        df_climate == DataFrame(response.qkind, response.columns, response.index)
        final == Reordered(DatesHandled(MetadataAdded(df_climate, row_info)))
    IN  IF response.net # "ok" THEN Failure(response.net)
        ELSE IF hasProperties = "TypeError" THEN Failure("TypeError")
        ELSE IF hasProperties = "False" THEN Silent
        ELSE IF ~Subscriptable(response.kind) THEN Failure("TypeError")
        ELSE IF hasParameter = "TypeError" THEN Failure("TypeError")
        ELSE IF hasParameter = "False" THEN Silent
        ELSE IF ~Subscriptable(response.pkind) THEN Failure("TypeError")
        ELSE IF FrameRaises(response.qkind) THEN Failure("ValueError")
        ELSE IF Empty(df_climate) THEN Silent
        ELSE IF WriteRaises(folder, disk) THEN Failure("OSError")
        ELSE Done(ReturnSuccess(row_info), TRUE, final)

-----------------------------------------------------------------------------
(* The request planner: lines 116-217 *)

Min(a, b) == IF a < b THEN a ELSE b

valid_temporal_resolutions == {"daily", "monthly", "climatology"}

valid_spatial_resolutions == {"point", "regional"}

valid_communities == {"RE", "AG", "SB"}

NoException == [type |-> "none", at |-> "none"]

Raised(type, at) == [type |-> type, at |-> at]

\* the checks without the last one
ValidationFailsNoCommunity(a, table) ==
    \/ a.lat_col \notin table.columns \/ a.lon_col \notin table.columns
    \/ Len(a.parameters) = 0
    \/ a.temporal_resolution \notin valid_temporal_resolutions
    \/ a.spatial_resolution \notin valid_spatial_resolutions

\* lines 117-135: the checks, in the order of the code
ValidationFails(a, table) ==
    \/ a.lat_col \notin table.columns \/ a.lon_col \notin table.columns
    \/ Len(a.parameters) = 0
    \/ a.temporal_resolution \notin valid_temporal_resolutions
    \/ a.spatial_resolution \notin valid_spatial_resolutions
    \/ a.community \notin valid_communities

\* the requested count taken as it is
Unclamped(requested) == requested

\* line 123
Clamped(requested) == Min(requested, MaxProcesses)

\* line 138: os.makedirs(output_folder, exist_ok=True)
makedirs(files) == [files EXCEPT !.folder = TRUE]

\* lines 174 and 179: `col and col in df.columns` ("" stands for None)
ColumnUsed(col, table) == col # "" /\ col \in table.columns

\* lines 175 and 180: the row's date, reformatted; NoDate where
\* pd.to_datetime or strftime raises
RowDateRaises(value) == to_datetime(value) = NoDate

RowDate(value) == StrftimeYmd(to_datetime(value))

\* line 201: the identifier of row i (0-based label idx of a RangeIndex)
Identifier(a, table, idx) ==
    IF ColumnUsed(a.id_col, table)
    THEN table.rows[idx + 1].id
    ELSE <<"i", "d", "x", "_">> \o NatText(idx)

\* line 203
Filename(identifier) == identifier \o <<".", "c", "s", "v">>

\* lines 170-217 for one row: the tuple (request_url, filepath, row_info)
Job(a, table, idx) ==
    LET row == table.rows[idx + 1]
        start == IF ColumnUsed(a.start_col, table) THEN RowDate(row.start) ELSE a.start_date
        end == IF ColumnUsed(a.end_col, table) THEN RowDate(row.end) ELSE a.end_date
        dated == a.temporal_resolution # "climatology"
        identifier == Identifier(a, table, idx)
    IN  [request |-> [temporal_resolution |-> a.temporal_resolution,
                      spatial_resolution |-> a.spatial_resolution,
                      parameters |-> a.parameters,
                      community |-> a.community,
                      latitude |-> row.latitude,
                      longitude |-> row.longitude,
                      start |-> IF dated THEN start ELSE <<>>,
                      end |-> IF dated THEN end ELSE <<>>],
         filepath |-> Filename(identifier),
         row_info |-> [index |-> idx,
                       latitude |-> row.latitude,
                       longitude |-> row.longitude,
                       start_date |-> IF dated THEN start ELSE <<>>,
                       end_date |-> IF dated THEN end ELSE <<>>,
                       identifier |-> identifier,
                       filename |-> Filename(identifier)]]

\* the loop of line 169 raises at the first row whose date does not parse
PlanRaises(a, table) ==
    \E i \in 1..Len(table.rows) :
        \/ ColumnUsed(a.start_col, table) /\ RowDateRaises(table.rows[i].start)
        \/ ColumnUsed(a.end_col, table) /\ RowDateRaises(table.rows[i].end)

\* the rows the loop of line 169 visits
PlannedRows(table) == 1..Len(table.rows)

\* the list `requests` after the loop
Planned(a, table) ==
    [i \in PlannedRows(table) |-> Job(a, table, i - 1)]

\* multiprocessing.Pool(processes) raises ValueError below one process
PoolRaises(size) == size < 1

-----------------------------------------------------------------------------
(* The reducer: lines 237-281 *)

\* read_csv's type inference for a column whose cells all read `text`: a
\* run of digits becomes an integer (leading zeros are lost)
Inferred(text) ==
    IF Len(text) > 0 /\ AllDigits(text)
    THEN [type |-> "int", text |-> NatText(NumVal(text))]
    ELSE [type |-> "str", text |-> text]

\* the cell of the date or period column in row i of a written frame
WhenCell(frame, i) ==
    IF HasColumn(frame, "date") /\ frame.cells[ColumnAt(frame, "date")] = "parsed"
    THEN [type |-> "str", text |-> IsoDate(StrptimeYmd(frame.index[i]))]
    ELSE IF \A k \in 1..Len(frame.index) : AllDigits(frame.index[k])
         THEN Inferred(frame.index[i])
         ELSE [type |-> "str", text |-> frame.index[i]]

\* pd.read_csv(filepath) raises when the file is missing or has no header
ReadRaises(files, path) ==
    path \notin DOMAIN files.content \/ Len(files.content[path].columns) = 0

\* the rows of pd.read_csv(filepath)
read_csv(files, path) ==
    LET frame == files.content[path]
    IN  [i \in 1..Len(frame.index) |->
            [identifier |-> Inferred(frame.identifier),
             latitude |-> frame.latitude,
             longitude |-> frame.longitude,
             when |-> WhenCell(frame, i)]]

\* lines 262-273 for the rows of results_df from position i on
RECURSIVE all_data(_, _, _)
all_data(results, files, i) ==
    IF i > Len(results) THEN <<>>
    ELSE LET row == results[i]
             path == row.filename
             rows == IF row.success /\ ~ReadRaises(files, path)
                     THEN read_csv(files, path)
                     ELSE <<>>
         IN  rows \o all_data(results, files, i + 1)

\* _consolidate_csv_data(results_df, output_folder): pd.concat of the
\* frames read, or the empty frame
consolidate_csv_data(results, files) == all_data(results, files, 1)

\* lines 230-234: the row appended to download_results
ResultRow(outcome) ==
    [index |-> outcome.row_info.index,
     latitude |-> outcome.row_info.latitude,
     longitude |-> outcome.row_info.longitude,
     start_date |-> outcome.row_info.start_date,
     end_date |-> outcome.row_info.end_date,
     identifier |-> outcome.row_info.identifier,
     filename |-> outcome.row_info.filename,
     success |-> outcome.success,
     error |-> outcome.error]

\* results_df['success'].any()
AnySuccess(results) == \E i \in 1..Len(results) : results[i].success

\* line 243: results_df['success'] on a frame built from an empty list
\* has no such column and raises KeyError
SummaryRaises(results) == Len(results) = 0

\* consolidation whenever it is asked for
ConsolidatesWhenAsked(return_consolidated, results) == return_consolidated

\* line 250
Consolidates(return_consolidated, results) ==
    return_consolidated /\ AnySuccess(results)

NoResult == [kind |-> "none", summary |-> <<>>, rows |-> <<>>]

\* lines 250-255: the value returned
Returned(return_consolidated, results, files) ==
    IF Consolidates(return_consolidated, results)
    THEN [kind |-> "consolidated", summary |-> <<>>,
          rows |-> consolidate_csv_data(results, files)]
    ELSE [kind |-> "summary", summary |-> results, rows |-> <<>>]

-----------------------------------------------------------------------------
(* Inputs *)

Day1 == <<"2", "0", "1", "5", "0", "1", "0", "1">>
Day2 == <<"2", "0", "1", "5", "0", "1", "0", "2">>
Feb30 == <<"2", "0", "1", "5", "0", "2", "3", "0">>
Month1 == <<"2", "0", "1", "5", "0", "1">>
Month2 == <<"2", "0", "1", "5", "0", "2">>
Ann == <<"A", "N", "N">>
IsoDay1 == <<"2", "0", "1", "5", "-", "0", "1", "-", "0", "1">>
EndDefault == <<"2", "0", "1", "5", "0", "3", "0", "5">>

AllColumns == {"latitude", "longitude", "id", "start", "end"}

\* the rows a location table is made of: two locations, and a third that
\* shares the first one's identifier and has no usable start date
LocationRows ==
    { [latitude |-> 19, longitude |-> -99, id |-> <<"a">>, start |-> IsoDay1, end |-> Day2],
      [latitude |-> 21, longitude |-> -89, id |-> <<"0", "7">>, start |-> Day1, end |-> Day2],
      [latitude |-> 25, longitude |-> -100, id |-> <<"a">>, start |-> <<"s", "o", "o", "n">>, end |-> Day2] }

RECURSIVE SeqsUpTo(_, _)
SeqsUpTo(S, n) ==
    IF n = 0 THEN {<<>>}
    ELSE LET shorter == SeqsUpTo(S, n - 1)
         IN  shorter \cup {Append(q, x) : q \in {t \in shorter : Len(t) = n - 1}, x \in S}

Tables(n) == {[columns |-> AllColumns, rows |-> r] : r \in SeqsUpTo(LocationRows, n)}

\* the defaults of the signature, lines 55-69
Defaults ==
    [lat_col |-> "latitude", lon_col |-> "longitude",
     start_date |-> Day1, end_date |-> EndDefault,
     parameters |-> <<"T2M", "TS">>,
     temporal_resolution |-> "daily", spatial_resolution |-> "point",
     community |-> "RE", processes |-> MaxProcesses, output_folder |-> "./nasa_power_data",
     start_col |-> "", end_col |-> "", id_col |-> "",
     return_consolidated |-> TRUE]

ColumnChoices ==
    { [id |-> "", start |-> "", end |-> ""],
      [id |-> "id", start |-> "", end |-> ""],
      [id |-> "", start |-> "start", end |-> "end"],
      [id |-> "id", start |-> "start", end |-> ""] }

\* calls that pass validation
ValidArgs(requested) ==
    { [Defaults EXCEPT !.temporal_resolution = t, !.processes = p,
                       !.id_col = c.id, !.start_col = c.start, !.end_col = c.end,
                       !.return_consolidated = rc] :
        t \in {"daily", "climatology"}, p \in requested, c \in ColumnChoices,
        rc \in BOOLEAN }

\* calls with any mix of configuration errors (and the one without)
MixedArgs ==
    { [Defaults EXCEPT !.lat_col = la, !.lon_col = lo, !.parameters = ps,
                       !.temporal_resolution = t, !.spatial_resolution = sp,
                       !.community = c] :
        la \in {"latitude", "lat"}, lo \in {"longitude", "lon"},
        ps \in {<<>>, <<"T2M", "TS">>}, t \in {"monthly", "hourly"},
        sp \in {"regional", "zonal"}, c \in {"AG", "SB", "XX"} }

\* a file left in the output folder by an earlier run
StaleFrame ==
    Reordered(DatesHandled(MetadataAdded(
        DataFrame("table", <<"T2M">>, <<Day1>>),
        [latitude |-> 1, longitude |-> 1, identifier |-> <<"a">>])))

NoFiles == [folder |-> FALSE, content |-> [p \in {} |-> NoFrame]]

InitialFs ==
    { NoFiles,
      [folder |-> TRUE, content |-> [p \in {Filename(<<"a">>)} |-> StaleFrame]] }

Response(net, kind, members, pkind, pmembers, qkind, columns, index) ==
    [net |-> net, kind |-> kind, members |-> members, pkind |-> pkind,
     pmembers |-> pmembers, qkind |-> qkind, columns |-> columns, index |-> index]

\* requests.get or .json() raised
NetError(e) == Response(e, "null", <<>>, "null", <<>>, "null", <<>>, <<>>)

\* a body that is no dict with a dict under 'properties'
Body(kind, members, pkind, pmembers) ==
    Response("ok", kind, members, pkind, pmembers, "null", <<>>, <<>>)

\* {"properties": {"parameter": <qkind>}}
Parameter(qkind, columns, index) ==
    Response("ok", "dict", <<"header", "properties">>, "dict", <<"parameter">>,
             qkind, columns, index)

Answer(response, disk) == [response |-> response, disk |-> disk]

\* what the provider answers in the end-to-end runs: a timeout, an error
\* document without 'properties', a two-day table
RunAnswers ==
    { Answer(NetError("ReadTimeout"), "ok"),
      Answer(Body("dict", <<"header", "messages">>, "null", <<>>), "ok"),
      Answer(Parameter("table", <<"T2M", "TS">>, <<Day1, Day2>>), "ok") }

LoadAnswers == { Answer(NetError("ReadTimeout"), "ok") }

VariableLists ==
    { <<>>, <<"T2M">>, <<"T2M", "TS">>, <<"TS", "T2M">>, <<"T2M", "period">>,
      <<"date", "T2M">>, <<"T2M", "latitude", "TS">>, <<"identifier">> }

PeriodLists ==
    { <<>>, <<Day1>>, <<Day1, Day2>>, <<Ann>>, <<Month1, Month2>>, <<Day1, Ann>>,
      <<Feb30>> }

\* the shapes of answer one worker is tried on
WorkerResponses ==
    { NetError(e) : e \in {"ConnectionError", "ReadTimeout", "JSONDecodeError"} }
    \cup { Body(k, <<>>, "null", <<>>) : k \in {"null", "num", "list", "str", "dict"} }
    \cup { Body(k, <<"properties">>, "null", <<>>) : k \in {"list", "str"} }
    \cup { Body("dict", <<"header", "messages">>, "null", <<>>) }
    \cup { Body("dict", <<"properties">>, k, <<>>) :
             k \in {"null", "num", "list", "str", "dict"} }
    \cup { Body("dict", <<"properties">>, k, <<"parameter">>) : k \in {"list", "str"} }
    \cup { Parameter(k, <<"T2M">>, <<>>) : k \in {"null", "num", "str", "scalars"} }
    \cup { Parameter("table", c, i) : c \in VariableLists, i \in PeriodLists }

\* the jobs one worker is tried on: planned from two small tables
WorkerJobs ==
    LET both == [columns |-> AllColumns,
                 rows |-> <<CHOOSE r \in LocationRows : r.latitude = 19,
                            CHOOSE r \in LocationRows : r.latitude = 21>>]
        named == Planned([Defaults EXCEPT !.id_col = "id"], both)
        plain == Planned([Defaults EXCEPT !.temporal_resolution = "climatology"], both)
    IN  {named[1], named[2], plain[1]}

NoFile == [exists |-> FALSE, frame |-> NoFrame]

Idle == [pc |-> "idle", collection |-> CHOOSE j \in WorkerJobs : TRUE,
         response |-> NetError("ReadTimeout"), disk |-> "ok", folder |-> FALSE,
         before |-> NoFile, file |-> NoFile, wrote |-> FALSE,
         ret |-> Outcome(<<>>, FALSE, None)]

-----------------------------------------------------------------------------
(* The call of download_nasa_power_data *)

\* the process counts a caller asks for in the end-to-end runs
RequestedProcesses == {0, 1, 12}

Start0(a, table, files, answers) ==
    /\ pc = "init"
    /\ args = a
    /\ df = table
    /\ fs = files
    /\ provider = answers
    /\ requests = <<>>
    /\ processes = a.processes
    /\ pool = 0
    /\ next = 1
    /\ running = {}
    /\ started = <<>>
    /\ written = <<>>
    /\ outqueue = <<>>
    /\ download_results = <<>>
    /\ exception = NoException
    /\ result = NoResult
    /\ w = Idle

Init ==
    \E a \in ValidArgs(RequestedProcesses) \cup MixedArgs,
       table \in Tables(MaxRows), files \in InitialFs :
        Start0(a, table, files, RunAnswers)

\* many locations, more processes requested than the cap, a provider that
\* times out
InitLoad ==
    \E a \in ValidArgs({1, 12}),
       table \in Tables(MaxLoadRows) :
        /\ a.temporal_resolution = "daily" /\ a.id_col = "" /\ a.start_col = ""
        /\ ~a.return_consolidated
        /\ \A i \in 1..Len(table.rows) : table.rows[i].latitude = 19
        /\ Start0(a, table, NoFiles, LoadAnswers)

\* lines 116-223: validation, the output folder, the job list, the pool
Call ==
    /\ pc = "init"
    /\ IF ValidationFails(args, df)
       THEN /\ pc' = "raised"
            /\ exception' = Raised("ValueError", "validation")
            /\ processes' = IF \/ args.lat_col \notin df.columns
                               \/ args.lon_col \notin df.columns
                               \/ Len(args.parameters) = 0
                            THEN processes
                            ELSE Clamped(args.processes)
            /\ UNCHANGED <<fs, requests, pool, started, written>>
       ELSE /\ processes' = Clamped(args.processes)
            /\ fs' = makedirs(fs)
            /\ IF PlanRaises(args, df)
               THEN /\ pc' = "raised"
                    /\ exception' = Raised("ValueError", "planning")
                    /\ UNCHANGED <<requests, pool, started, written>>
               ELSE /\ requests' = Planned(args, df)
                    /\ started' = [j \in DOMAIN requests' |-> 0]
                    /\ written' = [j \in DOMAIN requests' |-> 0]
                    /\ IF PoolRaises(processes')
                       THEN /\ pc' = "raised"
                            /\ exception' = Raised("ValueError", "pool")
                            /\ UNCHANGED pool
                       ELSE /\ pc' = "pool"
                            /\ pool' = processes'
                            /\ UNCHANGED exception
    /\ UNCHANGED <<args, df, provider, next, running, outqueue, download_results,
                   result, w>>

\* a pool that hands the same task out again
TaskAgain(n) == n

\* the position of the task handed out after task n
TaskAfter(n) == n + 1

\* an idle pool worker takes the next task and issues its request
Start ==
    /\ pc = "pool"
    /\ next <= Len(requests)
    /\ Cardinality(running) < pool
    /\ running' = running \cup {next}
    /\ started' = [started EXCEPT ![next] = @ + 1]
    /\ next' = TaskAfter(next)
    /\ UNCHANGED <<pc, args, df, fs, provider, requests, processes, pool, written,
                   outqueue, download_results, exception, result, w>>

\* line 48: df_climate.to_csv(filepath, index=False)
to_csv(files, path, frame) ==
    [files EXCEPT !.content =
        [p \in DOMAIN files.content \cup {path} |->
            IF p = path THEN frame ELSE files.content[p]]]

\* a worker gets its answer, runs the rest of download_function and hands
\* the returned triple to the pool
Finish ==
    /\ pc = "pool"
    /\ \E j \in running, answer \in provider :
        LET did == download_function(requests[j], answer.response, answer.disk, fs.folder)
        IN  /\ fs' = IF did.wrote THEN to_csv(fs, requests[j].filepath, did.frame) ELSE fs
            /\ written' = IF did.wrote
                          THEN [written EXCEPT ![j] = Len(did.frame.index)]
                          ELSE written
            /\ outqueue' = Append(outqueue, did.ret)
            /\ running' = running \ {j}
    /\ UNCHANGED <<pc, args, df, provider, requests, processes, pool, next, started,
                   download_results, exception, result, w>>

\* lines 227-234: one turn of the loop over pool.imap_unordered
Collect ==
    /\ pc = "pool"
    /\ Len(outqueue) > 0
    /\ download_results' = Append(download_results, ResultRow(Head(outqueue)))
    /\ outqueue' = Tail(outqueue)
    /\ UNCHANGED <<pc, args, df, fs, provider, requests, processes, pool, next,
                   running, started, written, exception, result, w>>

\* a loop that ends once every task has been handed out
ExhaustedWhenDispatched == next > Len(requests)

\* the iterator of line 224 is exhausted once it has yielded one result
\* per task
Exhausted == Len(download_results) = Len(requests)

\* lines 237-255: the loop has ended, the pool is closed; the summary, the
\* consolidation, the return
Reduce ==
    /\ pc = "pool"
    /\ Exhausted
    /\ IF SummaryRaises(download_results)
       THEN /\ pc' = "raised"
            /\ exception' = Raised("KeyError", "summary")
            /\ UNCHANGED result
       ELSE /\ pc' = "returned"
            /\ result' = Returned(args.return_consolidated, download_results, fs)
            /\ UNCHANGED exception
    /\ UNCHANGED <<args, df, fs, provider, requests, processes, pool, next, running,
                   started, written, outqueue, download_results, w>>

Next == Call \/ Start \/ Finish \/ Collect \/ Reduce

Spec == Init /\ [][Next]_vars

SpecLoad == InitLoad /\ [][Next]_vars

-----------------------------------------------------------------------------
(* One call of download_function, on every shape of answer *)

InitWorker ==
    \E job \in WorkerJobs, response \in WorkerResponses, disk \in {"ok", "OSError"},
       folder \in BOOLEAN, before \in {NoFile, [exists |-> TRUE, frame |-> StaleFrame]} :
        /\ (before.exists => folder)
        /\ w = [pc |-> "called", collection |-> job, response |-> response,
                disk |-> disk, folder |-> folder, before |-> before, file |-> before,
                wrote |-> FALSE,
                ret |-> Outcome(job.row_info, FALSE, None)]
        /\ pc = "idle"
        /\ args = Defaults
        /\ df = [columns |-> AllColumns, rows |-> <<>>]
        /\ fs = NoFiles
        /\ provider = {}
        /\ requests = <<>>
        /\ processes = 0
        /\ pool = 0
        /\ next = 1
        /\ running = {}
        /\ started = <<>>
        /\ written = <<>>
        /\ outqueue = <<>>
        /\ download_results = <<>>
        /\ exception = NoException
        /\ result = NoResult

\* download_function(collection) from call to return
Execute ==
    /\ w.pc = "called"
    /\ LET did == download_function(w.collection, w.response, w.disk, w.folder)
       IN  w' = [w EXCEPT !.pc = "returned",
                          !.ret = did.ret,
                          !.wrote = did.wrote,
                          !.file = IF did.wrote
                                   THEN [exists |-> TRUE, frame |-> did.frame]
                                   ELSE w.file]
    /\ UNCHANGED <<pc, args, df, fs, provider, requests, processes, pool, next, running,
                   started, written, outqueue, download_results, exception, result>>

NextWorker == Execute

SpecWorker == InitWorker /\ [][NextWorker]_vars

-----------------------------------------------------------------------------
(* Properties *)

\* the pool has yielded its last result and the loop of line 227 has ended
PoolFinished ==
    pc = "returned" \/ (pc = "raised" /\ exception.at = "summary")

\* the number of positions of a sequence of rows that carry index idx
RECURSIVE Occurrences(_, _)
Occurrences(rows, idx) ==
    IF Len(rows) = 0 THEN 0
    ELSE (IF Head(rows).index = idx THEN 1 ELSE 0) + Occurrences(Tail(rows), idx)

OutcomeIndexes(q) == [i \in 1..Len(q) |-> [index |-> q[i].row_info.index]]

\* C1: one job is planned per row of the location table; while the pool
\* runs every job is in exactly one place (waiting, running, produced,
\* collected) and is started at most once; once the pool has finished the
\* outcome list holds exactly one entry per job, each job started once.
C1_OneOutcomePerJob ==
    /\ pc \in {"pool", "returned"} \/ PoolFinished =>
        /\ Len(requests) = Len(df.rows)
        /\ \A j \in 1..Len(requests) :
            /\ requests[j].row_info.index = j - 1
            /\ started[j] <= 1
            /\ (IF j >= next THEN 1 ELSE 0) + (IF j \in running THEN 1 ELSE 0)
                 + Occurrences(OutcomeIndexes(outqueue), j - 1)
                 + Occurrences(download_results, j - 1) = 1
    /\ PoolFinished =>
        /\ Len(download_results) = Len(df.rows)
        /\ \A j \in 1..Len(df.rows) :
            Occurrences(download_results, j - 1) = 1 /\ started[j] = 1

\* two jobs, collected in the reverse of the input order, one failed
C1_Witness ==
    /\ pc = "returned"
    /\ Len(df.rows) = 2
    /\ download_results[1].index = 1
    /\ download_results[1].success
    /\ ~download_results[2].success

\* C2: a call with a configuration error raises the validation error and
\* has done nothing else: the file system is as the caller left it, no
\* job is planned, no worker process is started, no request is issued.
C2_ValidationFailsFast ==
    (/\ pc # "init"
     /\ \/ args.lat_col \notin df.columns
        \/ args.lon_col \notin df.columns
        \/ args.parameters = <<>>
        \/ args.temporal_resolution \notin {"daily", "monthly", "climatology"}
        \/ args.spatial_resolution \notin {"point", "regional"}
        \/ args.community \notin {"RE", "AG", "SB"}) =>
        /\ pc = "raised"
        /\ exception = Raised("ValueError", "validation")
        /\ fs \in InitialFs
        /\ requests = <<>>
        /\ pool = 0
        /\ running = {}
        /\ started = <<>>
        /\ download_results = <<>>

\* the only error is the community, the folder does not exist yet
C2_Witness ==
    /\ pc = "raised"
    /\ args.community = "XX"
    /\ args.lat_col \in df.columns /\ args.lon_col \in df.columns
    /\ Len(args.parameters) > 0
    /\ args.temporal_resolution = "monthly" /\ args.spatial_resolution = "regional"
    /\ fs = NoFiles

\* C3: the call raises only on a configuration error.
C3_RaisesOnlyOnConfiguration ==
    pc = "raised" => exception = Raised("ValueError", "validation")

\* the steps of download_function that can fail, read off the inputs
NetworkFails == w.response.net # "ok"

ConversionFails ==
    /\ w.response.net = "ok"
    /\ w.response.kind = "dict" /\ w.response.pkind = "dict"
    /\ \E i \in 1..Len(w.response.members) : w.response.members[i] = "properties"
    /\ \E i \in 1..Len(w.response.pmembers) : w.response.pmembers[i] = "parameter"
    /\ w.response.qkind \in {"num", "str", "scalars"}

WriteFails ==
    /\ w.response.net = "ok"
    /\ w.response.qkind = "table"
    /\ Len(w.response.columns) > 0 /\ Len(w.response.index) > 0
    /\ (w.disk # "ok" \/ ~w.folder)

\* C4: download_function returns for every job and every answer; the
\* outcome carries the job's metadata; its error is null exactly when
\* success is true; a failed network call, JSON parsing, table conversion
\* or file write gives success=false with an error string.
C4_WorkerNeverRaises ==
    /\ w.pc = "called" =>
        download_function(w.collection, w.response, w.disk, w.folder).ret.success
            \in BOOLEAN
    /\ w.pc = "returned" =>
        /\ w.ret.row_info = w.collection.row_info
        /\ w.ret.error.null <=> w.ret.success
        /\ (NetworkFails \/ ConversionFails \/ WriteFails) =>
            ~w.ret.success /\ ~w.ret.error.null

\* a table that could not be written
C4_Witness ==
    w.pc = "returned" /\ WriteFails /\ w.disk = "OSError" /\ w.folder /\ ~w.ret.success

\* C5: at most 5 workers execute a job at the same time, whatever was
\* requested, and the pool has min(requested, 5) workers.
C5_ConcurrencyCap ==
    /\ Cardinality(running) <= 5
    /\ pc = "pool" =>
        /\ pool = (IF args.processes < 5 THEN args.processes ELSE 5)
        /\ Cardinality(running) <= pool

\* 12 processes requested, five jobs in flight, a sixth waiting
C5_Witness ==
    /\ args.processes = 12
    /\ Cardinality(running) = 5
    /\ next <= Len(requests)

\* C6: a written file starts with identifier, latitude, longitude, then
\* exactly one of date and period, then the variables in the order of the
\* provider's answer.
C6_ColumnOrder ==
    (w.pc = "returned" /\ w.wrote) =>
        LET cols == w.file.frame.columns
        IN  /\ Len(cols) = 4 + Len(w.response.columns)
            /\ SubSeq(cols, 1, 3) = <<"identifier", "latitude", "longitude">>
            /\ cols[4] \in {"date", "period"}
            /\ ~(HasColumn(w.file.frame, "date") /\ HasColumn(w.file.frame, "period"))
            /\ SubSeq(cols, 5, Len(cols)) = w.response.columns

\* What does hold of a written file: when no variable of the answer is
\* named like one of the five leading columns, the layout is the stated one.
ColumnOrderForOtherNames ==
    (\A i \in 1..Len(w.response.columns) :
        w.response.columns[i] \notin
            {"identifier", "latitude", "longitude", "date", "period"})
        => C6_ColumnOrder

\* the files found, non-empty, at the paths of the successful outcomes
ReadableSuccess(i) ==
    /\ download_results[i].success
    /\ download_results[i].filename \in DOMAIN fs.content
    /\ Len(fs.content[download_results[i].filename].columns) > 0
    /\ Len(fs.content[download_results[i].filename].index) > 0

RECURSIVE SumWritten(_)
SumWritten(i) ==
    IF i > Len(download_results) THEN 0
    ELSE (IF download_results[i].success THEN written[download_results[i].index + 1] ELSE 0)
            + SumWritten(i + 1)

\* a row of the consolidated table carries the location of job j
TaggedBy(row, j) ==
    /\ row.latitude = df.rows[j].latitude
    /\ row.longitude = df.rows[j].longitude
    /\ row.identifier = [type |-> "str", text |-> requests[j].row_info.identifier]

\* C8 as stated: the consolidated table has as many rows as the successful
\* jobs wrote, each tagged with the identifier, latitude and longitude of
\* the location row of a successful job.
C8_RowsOfThisRun ==
    (pc = "returned" /\ result.kind = "consolidated") =>
        /\ Len(result.rows) = SumWritten(1)
        /\ \A r \in 1..Len(result.rows) :
            \E i \in 1..Len(download_results) :
                /\ download_results[i].success
                /\ TaggedBy(result.rows[r], download_results[i].index + 1)

DistinctPaths ==
    \A i, j \in 1..Len(requests) : i # j => requests[i].filepath # requests[j].filepath

\* no successful job that wrote nothing has a file at its path
NoEarlierFile ==
    \A i \in 1..Len(download_results) :
        (download_results[i].success /\ written[download_results[i].index + 1] = 0)
            => download_results[i].filename \notin DOMAIN fs.content

\* What does hold of the consolidated table: when the destination paths are
\* pairwise distinct and no successful job that wrote nothing finds an
\* earlier file at its path, it has as many rows as the successful jobs
\* wrote, and each row carries the latitude and longitude of the location
\* row of a successful job and that job's identifier as read_csv types it.
RowsOfThisRunWhenPathsDistinct ==
    (pc = "returned" /\ result.kind = "consolidated" /\ DistinctPaths /\ NoEarlierFile) =>
        /\ Len(result.rows) = SumWritten(1)
        /\ \A r \in 1..Len(result.rows) :
            \E i \in 1..Len(download_results) :
                LET j == download_results[i].index + 1
                IN  /\ download_results[i].success
                    /\ written[j] > 0
                    /\ result.rows[r].latitude = df.rows[j].latitude
                    /\ result.rows[r].longitude = df.rows[j].longitude
                    /\ result.rows[r].identifier = Inferred(requests[j].row_info.identifier)

\* two locations with their own identifiers, one table written, one failure
RowsOfThisRunReached ==
    /\ pc = "returned"
    /\ result.kind = "consolidated"
    /\ DistinctPaths /\ NoEarlierFile
    /\ Len(download_results) = 2
    /\ args.id_col = "id"
    /\ Len(result.rows) = 2
    /\ \E i \in 1..2 : ~download_results[i].success

\* C9: when the summary is built, the files are read back and the call
\* returns, no job is waiting, in flight or uncollected: every job was
\* started and its outcome collected.
C9_Barrier ==
    PoolFinished =>
        /\ running = {}
        /\ outqueue = <<>>
        /\ next > Len(requests)
        /\ \A j \in 1..Len(requests) :
            started[j] >= 1 /\ \E i \in 1..Len(download_results) : download_results[i].index = j - 1

\* the call has returned after two jobs ran side by side
C9_Witness ==
    /\ pc = "returned"
    /\ pool > 1
    /\ Len(requests) = 2
    /\ download_results[1].index = 1

\* the answers the claim is about: a document whose 'properties' key is
\* missing, or holds something without 'parameter', or holds no mapping
LacksParameter ==
    /\ w.response.net = "ok"
    /\ w.response.kind = "dict"
    /\ \/ ~\E i \in 1..Len(w.response.members) : w.response.members[i] = "properties"
       \/ w.response.pkind # "dict"
       \/ ~\E i \in 1..Len(w.response.pmembers) : w.response.pmembers[i] = "parameter"

\* the membership tests of line 18 give False: no 'properties' key, or a
\* dict, list or str under it that does not hold 'parameter'
TestsFalse ==
    \/ ~\E i \in 1..Len(w.response.members) : w.response.members[i] = "properties"
    \/ /\ w.response.pkind \in {"dict", "list", "str"}
       /\ ~\E i \in 1..Len(w.response.pmembers) : w.response.pmembers[i] = "parameter"

\* C10 amended: a document without a 'properties' key, or whose 'properties'
\* is a dict, list or str without 'parameter', gives success=true and
\* error=null; one whose 'properties' is null or a number, or a list or str
\* holding 'parameter', gives success=false with an error string; in both
\* cases nothing is written and the file at the job's path is untouched.
C10_MissingParameter ==
    (w.pc = "returned" /\ LacksParameter) =>
        /\ ~w.wrote
        /\ w.file = w.before
        /\ IF TestsFalse
           THEN w.ret.success /\ w.ret.error = None
           ELSE ~w.ret.success /\ ~w.ret.error.null

\* an error document without 'properties', an earlier file at the path
C10_Witness ==
    /\ w.pc = "returned"
    /\ LacksParameter
    /\ ~\E i \in 1..Len(w.response.members) : w.response.members[i] = "properties"
    /\ w.before.exists
    /\ w.file = w.before
    /\ w.ret.success

\* C10: an answer without the nested properties.parameter mapping gives
\* success=true, error=null, and the file at the job's path is untouched.
C10_MissingParameterIsSilent ==
    (w.pc = "returned" /\ LacksParameter) =>
        /\ w.ret.success
        /\ w.ret.error = None
        /\ ~w.wrote
        /\ w.file = w.before

=============================================================================
